---- MODULE Spec2Model ----
(***************************************************************************)
(* A model of the Spades rules engine (crate `spades`): the Game state     *)
(* machine of src/src/lib.rs, the scoring engine of src/src/scoring.rs and *)
(* the card domain of src/src/cards.rs.                                    *)
(*                                                                         *)
(* The program plays with 4 suits of 13 ranks: 52 cards, hands of 13 and   *)
(* 13 tricks per round.  The model keeps the four suits and the four seats *)
(* and scales the number of ranks per suit down to NumRanks, so that a     *)
(* hand holds NumRanks cards, a round has NumRanks tricks and the deck     *)
(* holds 4 * NumRanks cards.  Every place where the source writes 13, 12   *)
(* or 52 is written with TricksPerRound, TricksPerRound - 1 or DeckSize.   *)
(***************************************************************************)
EXTENDS Integers, Sequences, FiniteSets, TLC

(***************************************************************************)
(* Bounds of the model.                                                    *)
(***************************************************************************)
\* ranks per suit (13 in the program)
NumRanks == 3
\* number of rounds whose tricks may be played (the program has no limit)
MaxRounds == 1
\* the numeric bets offered to place_bet are Amount(1) .. Amount(MaxAmount)
MaxAmount == 1
\* the shuffles offered to deal_four_players are ShufflePerms' shifts 0 .. MaxShift
MaxShift == 2
\* number of rounds the drive-until-completed loop of SpecDrive may play
MaxDriveRounds == 3
\* the shuffles dealt in SpecDrive are DrivePerms' shifts 0 .. MaxDriveShift
MaxDriveShift == 0
\* the numeric bets given to calculate_round_totals are Amount(0) ..
\* Amount(MaxScoredAmount)
MaxScoredAmount == 13
\* the max_points argument given to Game::new (500 in the tests and examples):
\* with NumRanks = 3 a team of two Amount(1) bets reaches it by winning all
\* three tricks (21 points), and any successful Nil reaches it
MaxPointsArg == 21
\* the max_points arguments of the games of the model: MaxPointsArg, and 0,
\* which both teams' totals meet from the start of the game
PointsArgs == {0, MaxPointsArg}

(***************************************************************************)
(* Card domain: src/src/cards.rs                                           *)
(***************************************************************************)
Clubs == 0
Diamonds == 1
Hearts == 2
Spades == 3
LowestRank == 2

Suit == {Clubs, Diamonds, Hearts, Spades}
Rank == LowestRank .. (LowestRank + NumRanks - 1)
Card == [suit : Suit, rank : Rank]
Seats == 0 .. 3

TricksPerRound == NumRanks
DeckSize == 4 * NumRanks

\* impl Ord for Card: suit-major, rank-minor
CardKey(c) == c.suit * 15 + c.rank

\* new_deck before its shuffle: suits in order, ranks in order within a suit
OrderedDeck == [i \in 1 .. DeckSize |->
                  [suit |-> (i - 1) \div NumRanks,
                   rank |-> LowestRank + ((i - 1) % NumRanks)]]

RECURSIVE InsertCard(_, _)
\* `sorted` with `card` put before the first card that is greater
InsertCard(card, sorted) ==
    IF sorted = <<>> THEN <<card>>
    ELSE IF CardKey(card) <= CardKey(Head(sorted)) THEN <<card>> \o sorted
    ELSE <<Head(sorted)>> \o InsertCard(card, Tail(sorted))

RECURSIVE SortCards(_)
\* Vec::sort on a vector of cards, by CardKey
SortCards(cards) ==
    IF cards = <<>> THEN <<>>
    ELSE InsertCard(Head(cards), SortCards(Tail(cards)))

\* Vec::contains
Contains(hand, card) == \E i \in 1 .. Len(hand) : hand[i] = card

\* mutant of RemoveCard: the card stays in the hand
RemoveNoCard(hand, card) == hand

\* mutant of RemoveCard: the first card of the hand is removed
RemoveFirstCard(hand, card) == Tail(hand)

\* Vec::remove(position of card): the order of the rest is kept
RemoveCard(hand, card) == SelectSeq(hand, LAMBDA c : c # card)

\* mutant of DeckPush: the played card is put on the deck twice
DeckPushTwice(cards, card) == Append(Append(cards, card), card)

\* mutant of DeckPush: the played card is not put on the deck
DeckNoPush(cards, card) == cards

\* Vec::push of the played card on the deck (the discard pile)
DeckPush(cards, card) == Append(cards, card)

RECURSIVE WinnerScanNoTrump(_, _, _)
\* mutant of WinnerScan: a spade does not beat a card of another suit
WinnerScanNoTrump(others, i, acc) ==
    IF i > Len(others) THEN acc
    ELSE LET other == others[i]
             nxt == IF other.suit = acc.best.suit /\ other.rank > acc.best.rank
                    THEN [best |-> other, idx |-> i - 1]
                    ELSE acc
         IN  WinnerScanNoTrump(others, i + 1, nxt)

\* get_trick_winner's loop, folded over the cards in play order:
\* acc = [best, idx] after looking at others[1 .. i]
RECURSIVE WinnerScan(_, _, _)
WinnerScan(others, i, acc) ==
    IF i > Len(others) THEN acc
    ELSE LET other == others[i]
             nxt == IF other.suit = acc.best.suit
                    THEN IF other.rank > acc.best.rank
                         THEN [best |-> other, idx |-> i - 1]
                         ELSE acc
                    ELSE IF other.suit = Spades
                         THEN [best |-> other, idx |-> i - 1]
                         ELSE acc
         IN  WinnerScan(others, i + 1, nxt)

get_trick_winner(leading_player_index, others) ==
    (WinnerScan(others, 1, [best |-> others[1], idx |-> 0]).idx
        + leading_player_index) % 4

\* rand's shuffle is outside the repository: any permutation of the cards may
\* come out, whatever their order going in.  A shuffle is modelled by the
\* permutation it applies to the cards taken in sorted order, and the model
\* offers a family of permutations of 1 .. DeckSize: for every shift s in
\* 0 .. MaxShift, the cut at s ("cut"), which deals hands of mixed suits, and
\* the suit-by-suit layout across the four dealing positions cut at s
\* ("block"), which deals hands of one or two suits.
CutPerm(s) == [i \in 1 .. DeckSize |-> ((i - 1 + s) % DeckSize) + 1]
BlockPerm(s) ==
    [i \in 1 .. DeckSize |->
        ((((i - 1) % 4) * NumRanks + ((i - 1) \div 4) + s) % DeckSize) + 1]
ShufflePerms == {CutPerm(s) : s \in 0 .. MaxShift} \cup {BlockPerm(s) : s \in 0 .. MaxShift}

\* shuffle(cards) when rand applies `perm`
shuffle(cards, perm) ==
    LET sorted == SortCards(cards)
    IN  [i \in 1 .. Len(cards) |-> sorted[perm[i]]]

\* deal_four_players' assert_eq!(cards.len(), 52) holds
DealAssertHolds(cards) == Len(cards) = DeckSize

\* mutant of deal_four_players: every hand is given the cards of hands[0]
deal_four_players_same(cards, perm) ==
    LET shuffled == shuffle(cards, perm)
    IN  [i \in Seats |->
            [t \in 1 .. NumRanks |-> shuffled[Len(shuffled) - 4 * (t - 1)]]]

\* deal_four_players after its assertion: the cards are shuffled, popped from
\* the end of the vector and handed out round robin, hands[i] for i in 0 .. 3
deal_four_players(cards, perm) ==
    LET shuffled == shuffle(cards, perm)
    IN  [i \in Seats |->
            [t \in 1 .. NumRanks |-> shuffled[Len(shuffled) - i - 4 * (t - 1)]]]

(***************************************************************************)
(* Scoring engine: src/src/scoring.rs                                      *)
(***************************************************************************)
Amount(a) == [kind |-> "Amount", amount |-> a]
Nil == [kind |-> "Nil", amount |-> 0]
BlindNil == [kind |-> "BlindNil", amount |-> 0]

\* the bets offered to place_bet
BetInputs == {Amount(a) : a \in 1 .. MaxAmount} \cup {Nil, BlindNil}

\* TeamState::default
TeamStateDefault ==
    [tricks |-> 0, game_bags |-> 0, cumulative_bags |-> 0,
     game_points |-> 0, cumulative_points |-> 0]

\* PlayerState::default: won_trick = [false; 13]
PlayerStateDefault == [t \in 0 .. (TricksPerRound - 1) |-> FALSE]

\* won_trick.iter().filter(|x| **x).count()
CountTricks(won_trick) == Cardinality({t \in DOMAIN won_trick : won_trick[t]})

\* the numeric value calculate_round_totals gives a bet
BetValue(bet) == IF bet.kind = "Amount" THEN bet.amount ELSE 0

\* mutant of ContractAward: the tricks beyond the bets earn nothing
ContractAwardBetsOnly(tricks, team_bets) == team_bets * 10

\* the award both the primary gate and the nil-partner branches add
ContractAward(tricks, team_bets) == tricks - team_bets + (team_bets * 10)

\* mutant of ContractPenalty: the tricks won are credited against the bets
ContractPenaltyPartial(tricks, team_bets) == 0 - ((team_bets - tricks) * 10)

\* what the team loses when its tricks are fewer than its bets
ContractPenalty(tricks, team_bets) == 0 - (team_bets * 10)

\* mutant of PartnerMet: the partner's bet is not looked at
PartnerMetAnyBet(partner_tricks, team_bets, partner_bet) == partner_tricks >= team_bets

\* mutant of PartnerMet: the partner's own tricks are not looked at
PartnerBetNonzero(partner_tricks, team_bets, partner_bet) == partner_bet # 0

\* mutant of PartnerMet: the partner of a nil bidder never earns the award
PartnerNeverMet(partner_tricks, team_bets, partner_bet) == FALSE

\* the test of the nil-partner branches: the other partner's own tricks
\* cover the team's bets and that partner's bet is not 0
PartnerMet(partner_tricks, team_bets, partner_bet) ==
    partner_tricks >= team_bets /\ partner_bet # 0

\* mutant of NilChange: a BlindNil counts as a Nil
NilChangeNeverBlind(bet, player_tricks) ==
    IF player_tricks = 0 THEN 100 ELSE 0 - 100

\* the change a partner whose bet value is 0 brings
NilChange(bet, player_tricks) ==
    LET change_amount == IF bet = BlindNil THEN 200 ELSE 100
    IN  IF player_tricks = 0 THEN change_amount ELSE 0 - change_amount

\* the rollover test of calculate_round_totals, on the cumulative bags with
\* the round's bags already added: `if self.cumulative_bags >= 10`
BagsRollOverPast(cumulative_bags) == cumulative_bags > 10
BagsRollOver(cumulative_bags) == cumulative_bags >= 10

\* mutant of AddRoundPoints: the round's points replace the total
ReplaceByRoundPoints(cumulative_points, game_points) == game_points

\* calculate_round_totals' `self.cumulative_points += self.game_points`
AddRoundPoints(cumulative_points, game_points) == cumulative_points + game_points

\* the three assertions of calculate_round_totals on the tricks it counted:
\* neither partner and not the team has won more tricks than a round has
\* (13 in the program, the length of won_trick)
TotalsAssertHolds(first_player, second_player) ==
    LET round_tricks == Cardinality(DOMAIN first_player)
    IN  /\ CountTricks(first_player) <= round_tricks
        /\ CountTricks(second_player) <= round_tricks
        /\ CountTricks(first_player) + CountTricks(second_player) <= round_tricks

\* TeamState::calculate_round_totals: the team state after the settlement
calculate_round_totals(ts, first_bet, first_player, second_bet, second_player) ==
    LET first_player_tricks == CountTricks(first_player)
        second_player_tricks == CountTricks(second_player)
        tricks == first_player_tricks + second_player_tricks
        first_player_bet == BetValue(first_bet)
        second_player_bet == BetValue(second_bet)
        team_bets == first_player_bet + second_player_bet
        game_bags == IF tricks >= team_bets THEN tricks - team_bets ELSE 0
        p1 == IF tricks >= team_bets
              THEN IF first_player_bet # 0 /\ second_player_bet # 0
                   THEN ContractAward(tricks, team_bets)
                   ELSE 0
              ELSE ContractPenalty(tricks, team_bets)
        p2 == IF first_player_bet = 0
              THEN p1 + NilChange(first_bet, first_player_tricks)
                      + (IF PartnerMet(second_player_tricks, team_bets, second_player_bet)
                         THEN ContractAward(tricks, team_bets) ELSE 0)
              ELSE p1
        p3 == IF second_player_bet = 0
              THEN p2 + NilChange(second_bet, second_player_tricks)
                      + (IF PartnerMet(first_player_tricks, team_bets, first_player_bet)
                         THEN ContractAward(tricks, team_bets) ELSE 0)
              ELSE p2
        bags_sum == ts.cumulative_bags + game_bags
        cumulative_bags == IF BagsRollOver(bags_sum) THEN bags_sum - 10 ELSE bags_sum
        game_points == IF BagsRollOver(bags_sum) THEN p3 - 100 ELSE p3
    IN  [tricks |-> tricks,
         game_bags |-> game_bags,
         cumulative_bags |-> cumulative_bags,
         game_points |-> game_points,
         cumulative_points |-> AddRoundPoints(ts.cumulative_points, game_points)]

\* Scoring::new(max_points): the fields of Scoring::default with the given
\* max_points (bets_placed: [Bet::Amount(0); 4])
ScoringNew(max_points) ==
    [max_points |-> max_points,
     team |-> [t \in 0 .. 1 |-> TeamStateDefault],
     players |-> [p \in Seats |-> PlayerStateDefault],
     in_betting_stage |-> TRUE,
     bets_placed |-> [p \in Seats |-> Amount(0)],
     is_over |-> FALSE,
     round |-> 0,
     trick |-> 0]

\* Scoring::add_bet
add_bet(sc, current_player_index, bet) ==
    [sc EXCEPT !.bets_placed[current_player_index] = bet]

\* mutant of betting_over: the trick counter is not reset
betting_over_keep_trick(sc) ==
    [sc EXCEPT !.in_betting_stage = FALSE,
               !.players = [p \in Seats |-> PlayerStateDefault],
               !.team = [t \in 0 .. 1 |->
                           [sc.team[t] EXCEPT !.game_bags = 0, !.game_points = 0]]]

\* mutant of betting_over: the players' trick flags are kept
betting_over_keep_flags(sc) ==
    [sc EXCEPT !.trick = 0,
               !.in_betting_stage = FALSE,
               !.team = [t \in 0 .. 1 |->
                           [sc.team[t] EXCEPT !.game_bags = 0, !.game_points = 0]]]

\* Scoring::betting_over
betting_over(sc) ==
    [sc EXCEPT !.trick = 0,
               !.in_betting_stage = FALSE,
               !.players = [p \in Seats |-> PlayerStateDefault],
               !.team = [t \in 0 .. 1 |->
                           [sc.team[t] EXCEPT !.game_bags = 0, !.game_points = 0]]]

\* mutant of TrickWinner: the winner's position in the trick, not the seat
TrickWinnerRelative(starting_player_index, cards) == get_trick_winner(0, cards)

\* the seat Scoring::trick returns
TrickWinner(starting_player_index, cards) == get_trick_winner(starting_player_index, cards)

\* the trick counter at which Scoring::trick settles the round (12)
LastTrick == TricksPerRound - 1

\* mutant of IsLastTrick: the round is settled one trick early
IsLastTrickEarly(trick) == trick = LastTrick - 1

\* Scoring::trick's test `self.trick == 12`
IsLastTrick(trick) == trick = LastTrick

\* mutant of ReachedMax: the threshold must be exceeded
ReachedMaxStrictly(cumulative_points, max_points) == cumulative_points > max_points

\* Scoring::trick's test of a team's total against config.max_points
ReachedMax(cumulative_points, max_points) == cumulative_points >= max_points

\* Scoring::trick reaches its end: when the trick is the last of the round,
\* the assertions of both teams' calculate_round_totals hold
TrickAssertsHold(sc, starting_player_index, cards) ==
    LET winner == TrickWinner(starting_player_index, cards)
        sc1 == [sc EXCEPT !.players[winner][sc.trick] = TRUE]
    IN  IsLastTrick(sc1.trick)
            => /\ TotalsAssertHolds(sc1.players[0], sc1.players[2])
               /\ TotalsAssertHolds(sc1.players[1], sc1.players[3])

\* Scoring::trick: the scoring state after the trick
ScoringTrick(sc, starting_player_index, cards) ==
    LET winner == TrickWinner(starting_player_index, cards)
        sc1 == [sc EXCEPT !.players[winner][sc.trick] = TRUE]
    IN  IF IsLastTrick(sc1.trick)
        THEN LET t0 == calculate_round_totals(sc1.team[0],
                           sc1.bets_placed[0], sc1.players[0],
                           sc1.bets_placed[2], sc1.players[2])
                 t1 == calculate_round_totals(sc1.team[1],
                           sc1.bets_placed[1], sc1.players[1],
                           sc1.bets_placed[3], sc1.players[3])
             IN  [sc1 EXCEPT !.team = [t \in 0 .. 1 |-> IF t = 0 THEN t0 ELSE t1],
                             !.is_over = (sc1.is_over
                                          \/ ReachedMax(t0.cumulative_points, sc1.max_points)
                                          \/ ReachedMax(t1.cumulative_points, sc1.max_points)),
                             !.in_betting_stage = TRUE,
                             !.round = sc1.round + 1]
        ELSE [sc1 EXCEPT !.trick = sc1.trick + 1]

(***************************************************************************)
(* Game state machine: src/src/lib.rs                                      *)
(***************************************************************************)
VARIABLES
    state,                  \* Game.state: [tag, n]
    scoring,                \* Game.scoring
    current_player_index,   \* Game.current_player_index
    deck,                   \* Game.deck
    current_trick,          \* Game.current_trick
    bets_placed,            \* Game.bets_placed
    leading_suit,           \* Game.leading_suit: NoSuit or Some(suit)
    spades_broken,          \* Game.spades_broken
    player,                 \* Game.player: [seen_hand, hand] per seat
    ret,                    \* what the last call of the API returned, or "Panic"
    h_bets,                 \* history: place_bet calls accepted since the last deal
    h_plays,                \* history: play_card calls accepted since the last deal
    h_viewed,               \* history: seats whose current_hand call succeeded since the last deal
    h_ever,                 \* history: seats whose current_hand call ever succeeded
    h_trick,                \* history: the seats that played the cards of current_trick
    h_last,                 \* history: the last completed trick, [cards, seats]
    probe                   \* a call of a pure function: its arguments and its result

game == <<state, scoring, current_player_index, deck, current_trick, bets_placed,
          leading_suit, spades_broken, player>>
hist == <<h_bets, h_plays, h_viewed, h_ever, h_trick, h_last>>
vars == <<game, ret, hist, probe>>

\* the variants of State (src/src/game_state.rs)
GameNotStarted == [tag |-> "GameNotStarted", n |-> 0]
Betting(n) == [tag |-> "Betting", n |-> n]
Trick(n) == [tag |-> "Trick", n |-> n]
GameCompleted == [tag |-> "GameCompleted", n |-> 0]

\* Option<Suit>: None and Some(suit)
NoSuit == {}
Some(suit) == {suit}

\* Player::new
PlayerNew == [seen_hand |-> FALSE, hand |-> <<>>]

\* no pure function is being called
NoProbe == [fn |-> "none", leader |-> 0, cards |-> <<>>, done |-> FALSE, out |-> 0]

\* Game::new(id, player_ids, max_points); new_deck() returns the deck shuffled
Init ==
    /\ probe = NoProbe
    /\ state = GameNotStarted
    /\ scoring \in {ScoringNew(max_points) : max_points \in PointsArgs}
    /\ current_trick = <<>>
    /\ bets_placed = [p \in Seats |-> Amount(0)]
    /\ deck \in {shuffle(OrderedDeck, perm) : perm \in ShufflePerms}
    /\ current_player_index = 0
    /\ leading_suit = NoSuit
    /\ spades_broken = FALSE
    /\ player = [p \in Seats |-> PlayerNew]
    /\ ret = "Unit"
    /\ h_bets = 0
    /\ h_plays = 0
    /\ h_viewed = {}
    /\ h_ever = {}
    /\ h_trick = <<>>
    /\ h_last = [cards |-> <<>>, seats |-> <<>>]

\* mutant of can_start_game: a completed game may be started again
can_start_game_again ==
    IF state.tag \in {"GameNotStarted", "GameCompleted"} THEN "None" ELSE "ImproperGameStage"

\* Game::can_start_game
can_start_game ==
    IF state = GameNotStarted THEN "None" ELSE "ImproperGameStage"

\* Game::can_place_bet
can_place_bet(bet) ==
    CASE state.tag = "GameNotStarted" -> "GameNotStarted"
      [] state.tag = "Trick" -> "ImproperGameStage"
      [] state.tag = "GameCompleted" -> "GameCompleted"
      [] state.tag = "Betting" ->
            IF bet = BlindNil /\ player[current_player_index].seen_hand
            THEN "BetImproperSeenHand"
            ELSE "None"

\* mutant of can_play_card_from_hand: the leading suit need not be followed
can_play_card_any_suit(rotation_status, card, hand) ==
    IF ~Contains(hand, card) THEN "CardNotInHand"
    ELSE IF /\ rotation_status = 0
            /\ card.suit = Spades
            /\ ~(spades_broken \/ ~(\E i \in 1 .. Len(hand) : hand[i].suit # Spades))
         THEN "CardIncorrectSuit"
    ELSE "None"

\* mutant of can_play_card_from_hand: a spade may lead at any time
can_play_card_lead_spade(rotation_status, card, hand) ==
    IF ~Contains(hand, card) THEN "CardNotInHand"
    ELSE IF /\ leading_suit # Some(card.suit)
            /\ \E i \in 1 .. Len(hand) : Some(hand[i].suit) = leading_suit
         THEN "CardIncorrectSuit"
    ELSE "None"

\* mutant of can_play_card_from_hand: a hand of spades only may not lead
\* before spades are broken
can_play_card_spades_locked(rotation_status, card, hand) ==
    IF ~Contains(hand, card) THEN "CardNotInHand"
    ELSE IF rotation_status = 0 /\ card.suit = Spades /\ ~spades_broken
         THEN "CardIncorrectSuit"
    ELSE IF /\ leading_suit # Some(card.suit)
            /\ \E i \in 1 .. Len(hand) : Some(hand[i].suit) = leading_suit
         THEN "CardIncorrectSuit"
    ELSE "None"

\* mutant of can_play_card_from_hand: the suit is checked before the hand
can_play_card_suit_first(rotation_status, card, hand) ==
    IF /\ rotation_status = 0
       /\ card.suit = Spades
       /\ ~(spades_broken \/ ~(\E i \in 1 .. Len(hand) : hand[i].suit # Spades))
    THEN "CardIncorrectSuit"
    ELSE IF /\ leading_suit # Some(card.suit)
            /\ \E i \in 1 .. Len(hand) : Some(hand[i].suit) = leading_suit
         THEN "CardIncorrectSuit"
    ELSE IF ~Contains(hand, card) THEN "CardNotInHand"
    ELSE "None"

\* Game::can_play_card_from_hand
can_play_card_from_hand(rotation_status, card, hand) ==
    IF ~Contains(hand, card) THEN "CardNotInHand"
    ELSE IF /\ rotation_status = 0
            /\ card.suit = Spades
            /\ ~(spades_broken \/ ~(\E i \in 1 .. Len(hand) : hand[i].suit # Spades))
         THEN "CardIncorrectSuit"
    ELSE IF /\ leading_suit # Some(card.suit)
            /\ \E i \in 1 .. Len(hand) : Some(hand[i].suit) = leading_suit
         THEN "CardIncorrectSuit"
    ELSE "None"

\* Game::can_play_card
can_play_card(card) ==
    CASE state.tag = "GameNotStarted" -> "GameNotStarted"
      [] state.tag = "GameCompleted" -> "GameCompleted"
      [] state.tag = "Betting" -> "ImproperGameStage"
      [] state.tag = "Trick" ->
            can_play_card_from_hand(state.n, card, player[current_player_index].hand)

\* mutant of deal_cards: the player at seat 3 is dealt no hand
deal_cards_three_seats(pl, cards, perm) ==
    [p \in Seats |->
        IF p = 3 THEN pl[p]
        ELSE [pl[p] EXCEPT !.hand = SortCards(deal_four_players(cards, perm)[3 - p])]]

\* Game::deal_cards of the deck `cards` when the shuffle applies `perm`:
\* hands.pop() gives player 0 the last of the four dealt hands; every hand is
\* sorted; the players' other fields are kept
deal_cards(pl, cards, perm) ==
    [p \in Seats |->
        [pl[p] EXCEPT !.hand = SortCards(deal_four_players(cards, perm)[3 - p])]]

\* Game::hand_from_player_id for the player at `seat` (a query: &self)
hand_from_player_id(seat) == player[seat].hand

\* Game::bets_placed (a query: &self): Ok(self.bets_placed)
bets_placed_query == bets_placed

\* Result<(Uid, Uid), SpadesError>; a player's id is written as the seat
Ok(ids) == [ok |-> TRUE, ids |-> ids]
Err(error) == [ok |-> FALSE, error |-> error]

\* Game::winner_ids (a query: &self)
winner_ids ==
    IF state = GameCompleted
    THEN IF scoring.team[0].cumulative_points <= scoring.team[1].cumulative_points
         THEN Ok(<<0, 2>>)
         ELSE Ok(<<1, 3>>)
    ELSE Err("GameNotCompleted")

\* Game::start_game with Game::execute_game_start and Game::deal_cards;
\* `perm` is what the deal's shuffle does
start_game(perm) ==
    /\ ret # "Panic"
    /\ UNCHANGED probe
    /\ IF can_start_game # "None"
       THEN /\ ret' = "Unit"
            /\ UNCHANGED <<game, hist>>
       ELSE /\ spades_broken' = FALSE
            /\ IF DealAssertHolds(deck)
               THEN /\ player' = deal_cards(player, deck, perm)
                    /\ deck' = <<>>
                    /\ state' = Betting(0)
                    /\ ret' = "Unit"
               ELSE /\ ret' = "Panic"
                    /\ UNCHANGED <<player, deck, state>>
            /\ h_bets' = 0
            /\ h_plays' = 0
            /\ h_viewed' = {}
            /\ UNCHANGED <<scoring, current_player_index, current_trick, bets_placed,
                           leading_suit, h_ever, h_trick, h_last>>

\* the ids a caller passes to hand_from_player_id: the ids of the four
\* players, written as their seats, and an id of no player
UnknownId == 4
PlayerIds == Seats \cup {UnknownId}

\* a call of Game::hand_from_player_id(player_id): Ok(&hand) for the id of a
\* player, in every state, Err(InvalidUuid) otherwise; the method takes
\* &self and writes no field
call_hand_from_player_id(player_id) ==
    /\ ret # "Panic"
    /\ probe' = [fn |-> "hand_from_player_id",
                 player_id |-> player_id,
                 done |-> TRUE,
                 out |-> IF player_id \in Seats
                         THEN [ok |-> TRUE, hand |-> hand_from_player_id(player_id)]
                         ELSE [ok |-> FALSE, hand |-> <<>>]]
    /\ ret' = IF player_id \in Seats THEN "Ok" ELSE "Err"
    /\ UNCHANGED <<game, hist>>

\* Game::current_hand: Ok(hand) in the Betting and Trick states, Err otherwise
current_hand ==
    /\ ret # "Panic"
    /\ UNCHANGED probe
    /\ IF state.tag \in {"Betting", "Trick"}
       THEN /\ player' = [player EXCEPT ![current_player_index].seen_hand = TRUE]
            /\ h_viewed' = h_viewed \cup {current_player_index}
            /\ h_ever' = h_ever \cup {current_player_index}
            /\ ret' = "Ok"
       ELSE /\ UNCHANGED <<player, h_viewed, h_ever>>
            /\ ret' = "Err"
    /\ UNCHANGED <<state, scoring, current_player_index, deck, current_trick, bets_placed,
                   leading_suit, spades_broken, h_bets, h_plays, h_trick, h_last>>

\* mutant of NextBettor: the turn stays with the player who bet
NextBettorSame(current) == current

\* execute_bet's advance of the turn to the next seat
NextBettor(current) == (current + 1) % 4

\* mutant of RefusedBet: the bet is recorded before it is validated
RefusedBetRecorded(sc, current, bet) == add_bet(sc, current, bet)

\* place_bet's refusal, `if let Some(_err) = self.can_place_bet(bet) { None }`:
\* the scoring state is the one before the call
RefusedBet(sc, current, bet) == sc

\* Game::place_bet with Game::execute_bet
place_bet(bet) ==
    /\ ret # "Panic"
    /\ UNCHANGED probe
    /\ IF can_place_bet(bet) # "None"
       THEN /\ ret' = "None"
            /\ scoring' = RefusedBet(scoring, current_player_index, bet)
            /\ UNCHANGED <<state, current_player_index, deck, current_trick, bets_placed,
                           leading_suit, spades_broken, player, hist>>
       ELSE /\ h_bets' = h_bets + 1
            /\ IF state.n = 3
               THEN /\ scoring' = betting_over(add_bet(scoring, current_player_index, bet))
                    /\ state' = Trick((state.n + 1) % 4)
                    /\ current_player_index' = 0
                    /\ ret' = "CompletedBetting"
               ELSE /\ scoring' = add_bet(scoring, current_player_index, bet)
                    /\ current_player_index' = NextBettor(current_player_index)
                    /\ state' = Betting((state.n + 1) % 4)
                    /\ ret' = "MadeBet"
            /\ UNCHANGED <<deck, current_trick, bets_placed, leading_suit, spades_broken,
                           player, h_plays, h_viewed, h_ever, h_trick, h_last>>

\* mutant of NextPlayer: the turn skips a seat
NextPlayerSkips(current) == (current + 2) % 4

\* execute_play_card's advance of the turn within a trick
NextPlayer(current) == (current + 1) % 4

\* mutant of LeadingSuitAfter: every card played sets the leading suit
LeadingSuitOfLastCard(rotation_status, card, leading) == Some(card.suit)

\* play_card's `if rotation_status == 0 { self.leading_suit = Some(card.suit) }`
LeadingSuitAfter(rotation_status, card, leading) ==
    IF rotation_status = 0 THEN Some(card.suit) ELSE leading

\* mutant of BreaksSpades: a spade breaks spades only when it leads the trick
BreaksSpadesWhenLed(broken, rotation_status, card) ==
    broken \/ (card.suit = Spades /\ rotation_status = 0)

\* execute_play_card's `if card.suit == Suit::Spade { self.spades_broken = true }`
BreaksSpades(broken, rotation_status, card) == broken \/ card.suit = Spades

\* Game::play_card with Game::execute_play_card, and Game::deal_cards when the
\* round is over and the game goes on; `perm` is what that deal's shuffle does
play_card(card, perm) ==
    /\ ret # "Panic"
    /\ UNCHANGED probe
    /\ IF can_play_card(card) # "None"
       THEN /\ ret' = "None"
            /\ UNCHANGED <<game, hist>>
       ELSE LET rotation_status == state.n
                hand1 == RemoveCard(player[current_player_index].hand, card)
                player1 == [player EXCEPT ![current_player_index].hand = hand1]
                deck1 == DeckPush(deck, card)
                trick1 == Append(current_trick, card)
                seats1 == Append(h_trick, current_player_index)
                broken1 == BreaksSpades(spades_broken, rotation_status, card)
                starting == (current_player_index + 1) % 4
                winner == TrickWinner(starting, trick1)
                scoring1 == ScoringTrick(scoring, starting, trick1)
            IN  IF rotation_status = 3 /\ ~TrickAssertsHold(scoring, starting, trick1)
                THEN /\ ret' = "Panic"
                     /\ player' = player1
                     /\ deck' = deck1
                     /\ spades_broken' = broken1
                     /\ current_trick' = trick1
                     /\ UNCHANGED <<state, scoring, current_player_index, bets_placed,
                                    leading_suit, hist>>
                ELSE IF rotation_status = 3
                THEN /\ h_ever' = h_ever
                     /\ scoring' = scoring1
                     /\ current_trick' = <<>>
                     /\ leading_suit' = NoSuit
                     /\ h_trick' = <<>>
                     /\ h_last' = [cards |-> trick1, seats |-> seats1]
                     /\ IF scoring1.is_over
                        THEN /\ state' = GameCompleted
                             /\ ret' = "GameCompleted"
                             /\ spades_broken' = broken1
                             /\ player' = player1
                             /\ deck' = deck1
                             /\ h_plays' = h_plays + 1
                             /\ UNCHANGED <<current_player_index, bets_placed, h_bets, h_viewed>>
                        ELSE IF scoring1.in_betting_stage
                        THEN /\ current_player_index' = 0
                             /\ spades_broken' = FALSE
                             /\ bets_placed' = [p \in Seats |-> Amount(0)]
                             /\ state' = Betting(0)
                             /\ IF DealAssertHolds(deck1)
                                THEN /\ player' = deal_cards(player1, deck1, perm)
                                     /\ deck' = <<>>
                                     /\ ret' = "TrickCompleted"
                                ELSE /\ player' = player1
                                     /\ deck' = deck1
                                     /\ ret' = "Panic"
                             /\ h_bets' = 0
                             /\ h_plays' = 0
                             /\ h_viewed' = {}
                        ELSE /\ current_player_index' = winner
                             /\ state' = Trick((rotation_status + 1) % 4)
                             /\ ret' = "TrickCompleted"
                             /\ spades_broken' = broken1
                             /\ player' = player1
                             /\ deck' = deck1
                             /\ h_plays' = h_plays + 1
                             /\ UNCHANGED <<bets_placed, h_bets, h_viewed>>
                ELSE /\ leading_suit' = LeadingSuitAfter(rotation_status, card, leading_suit)
                     /\ player' = player1
                     /\ deck' = deck1
                     /\ spades_broken' = broken1
                     /\ current_trick' = trick1
                     /\ current_player_index' = NextPlayer(current_player_index)
                     /\ state' = Trick((rotation_status + 1) % 4)
                     /\ ret' = "CardPlayed"
                     /\ h_plays' = h_plays + 1
                     /\ h_trick' = seats1
                     /\ UNCHANGED <<scoring, bets_placed, h_bets, h_viewed, h_ever, h_last>>

(***************************************************************************)
(* Specifications.  Tricks are played in the first MaxRounds rounds only;   *)
(* play_card is called, and refused, in every other state.                 *)
(***************************************************************************)
\* Bet::default() is Amount(3) of 13 tricks; scaled to the model's hands
DefaultBet == Amount(1)

\* Spec, card play: every shuffle of ShufflePerms, every card offered to
\* play_card at every turn, every player betting DefaultBet
Next ==
    \/ \E perm \in ShufflePerms : start_game(perm)
    \/ place_bet(DefaultBet)
    \/ /\ scoring.round < MaxRounds \/ state.tag # "Trick"
       /\ \E card \in Card, perm \in ShufflePerms : play_card(card, perm)

Spec == Init /\ [][Next]_vars

\* the card a caller playing the first playable card of the hand offers
FirstPlayable(hand) ==
    hand[CHOOSE i \in 1 .. Len(hand) :
            /\ can_play_card(hand[i]) = "None"
            /\ \A j \in 1 .. (i - 1) : can_play_card(hand[j]) # "None"]

\* SpecBetting, betting: every bet of BetInputs offered at every turn,
\* current_hand called at any time, every shuffle being CutPerm(0); the
\* cards offered to play_card are the first playable card of the current
\* hand and every card that play_card refuses
NextBetting ==
    \/ start_game(CutPerm(0))
    \/ current_hand
    \/ \E bet \in BetInputs : place_bet(bet)
    \/ /\ scoring.round < MaxRounds \/ state.tag # "Trick"
       /\ \E card \in Card :
            /\ IF can_play_card(card) # "None" THEN TRUE
               ELSE card = FirstPlayable(player[current_player_index].hand)
            /\ play_card(card, CutPerm(0))

SpecBetting == Init /\ [][NextBetting]_vars

\* SpecWinner, get_trick_winner as a function: called once on any four
\* distinct cards in play order and any leading seat
InitWinner ==
    /\ state = GameNotStarted
    /\ scoring = ScoringNew(MaxPointsArg)
    /\ current_trick = <<>>
    /\ bets_placed = [p \in Seats |-> Amount(0)]
    /\ deck = shuffle(OrderedDeck, CutPerm(0))
    /\ current_player_index = 0
    /\ leading_suit = NoSuit
    /\ spades_broken = FALSE
    /\ player = [p \in Seats |-> PlayerNew]
    /\ ret = "Unit"
    /\ h_bets = 0
    /\ h_plays = 0
    /\ h_viewed = {}
    /\ h_ever = {}
    /\ h_trick = <<>>
    /\ h_last = [cards |-> <<>>, seats |-> <<>>]
    /\ probe \in {[fn |-> "get_trick_winner", leader |-> l, cards |-> <<a, b, c, d>>,
                   done |-> FALSE, out |-> 0] :
                     l \in Seats,
                     a \in Card, b \in Card, c \in Card, d \in Card}
    /\ Cardinality({probe.cards[i] : i \in 1 .. 4}) = 4

CallWinner ==
    /\ probe.fn = "get_trick_winner"
    /\ ~probe.done
    /\ probe' = [probe EXCEPT !.done = TRUE,
                              !.out = get_trick_winner(probe.leader, probe.cards)]
    /\ UNCHANGED <<game, ret, hist>>

SpecWinner == InitWinner /\ [][CallWinner]_vars

\* the game but for the count of the rounds, Scoring.round, a field that the
\* program increments and never reads
GameButRound ==
    <<state, [scoring EXCEPT !.round = 0], current_player_index, deck, current_trick,
      bets_placed, leading_suit, spades_broken, player>>

\* an observer notes the game as it is dealt for a new round
Observe ==
    /\ ret = "TrickCompleted"
    /\ state = Betting(0)
    /\ probe = NoProbe
    /\ probe' = [fn |-> "observe", round |-> scoring.round, seen |-> GameButRound]
    /\ UNCHANGED <<game, ret, hist>>

\* SpecDrive, the drive-until-completed loop of the crate's documentation
\* and of tests/integration_tests.rs: start_game once, then in Betting every
\* player bets Bet::default() and in Trick the current player calls
\* current_hand and plays any card of it that can_play_card accepts, until
\* GameCompleted (a current_hand call by a player whose seen_hand is set
\* changes nothing and is left out); every shuffle of DrivePerms may be dealt
DrivePerms == {CutPerm(s) : s \in 0 .. MaxDriveShift} \cup {BlockPerm(s) : s \in 0 .. MaxDriveShift}

NextDrive ==
    \/ /\ state = GameNotStarted
       /\ \E perm \in DrivePerms : start_game(perm)
    \/ /\ state.tag = "Betting"
       /\ place_bet(DefaultBet)
    \/ /\ state.tag = "Trick"
       /\ ~player[current_player_index].seen_hand
       /\ current_hand
    \/ /\ state.tag = "Trick"
       /\ player[current_player_index].seen_hand
       /\ scoring.round < MaxDriveRounds
       /\ \E card \in Card, perm \in DrivePerms :
            /\ can_play_card(card) = "None"
            /\ play_card(card, perm)
    \/ Observe

SpecDrive == Init /\ [][NextDrive]_vars

\* the tricks of a round in the program: PlayerState.won_trick is [bool; 13]
WonTrickLen == 13

\* a PlayerState of the program's size in which the player won `n` tricks
WonTricks(n) == [t \in 0 .. (WonTrickLen - 1) |-> t < n]

\* the bets calculate_round_totals is given
ScoredBets == {Amount(a) : a \in 0 .. MaxScoredAmount} \cup {Nil, BlindNil}

\* the cumulative bags and points of the team before the settlement; a
\* settlement leaves at most 9 + 13 - 10 cumulative bags
PriorBags == {0, 4, 9, 12}
PriorPoints == {0, 0 - 60}

\* SpecScoring, calculate_round_totals as a function: called once for any
\* two bets of ScoredBets, any two trick counts of the partners that a round
\* of 13 tricks allows and the prior totals of PriorBags and PriorPoints
InitScoring ==
    /\ state = GameNotStarted
    /\ scoring = ScoringNew(MaxPointsArg)
    /\ current_trick = <<>>
    /\ bets_placed = [p \in Seats |-> Amount(0)]
    /\ deck = shuffle(OrderedDeck, CutPerm(0))
    /\ current_player_index = 0
    /\ leading_suit = NoSuit
    /\ spades_broken = FALSE
    /\ player = [p \in Seats |-> PlayerNew]
    /\ ret = "Unit"
    /\ h_bets = 0
    /\ h_plays = 0
    /\ h_viewed = {}
    /\ h_ever = {}
    /\ h_trick = <<>>
    /\ h_last = [cards |-> <<>>, seats |-> <<>>]
    /\ probe \in {[fn |-> "calculate_round_totals",
                   ts |-> [TeamStateDefault EXCEPT !.cumulative_bags = bags,
                                                   !.cumulative_points = points],
                   first_bet |-> b1, first_tricks |-> t1,
                   second_bet |-> b2, second_tricks |-> t2,
                   done |-> FALSE, out |-> TeamStateDefault] :
                     bags \in PriorBags, points \in PriorPoints,
                     b1 \in ScoredBets, b2 \in ScoredBets,
                     t1 \in 0 .. WonTrickLen, t2 \in 0 .. WonTrickLen}
    /\ probe.first_tricks + probe.second_tricks <= WonTrickLen

CallTotals ==
    /\ probe.fn = "calculate_round_totals"
    /\ ~probe.done
    /\ probe' = [probe EXCEPT
                    !.done = TRUE,
                    !.out = calculate_round_totals(probe.ts,
                                probe.first_bet, WonTricks(probe.first_tricks),
                                probe.second_bet, WonTricks(probe.second_tricks))]
    /\ UNCHANGED <<game, ret, hist>>

SpecScoring == InitScoring /\ [][CallTotals]_vars

\* bets of every u8 kind of amount: within a round's tricks (0 .. 13 in the
\* program) and one beyond them
WideBets == {Amount(a) : a \in 0 .. (TricksPerRound + 1)} \cup {Nil, BlindNil}

\* SpecBets, the betting stage of the first round with the bets of WideBets
NextBets ==
    \/ start_game(CutPerm(0))
    \/ current_hand
    \/ \E bet \in WideBets : place_bet(bet)

SpecBets == Init /\ [][NextBets]_vars

\* SpecHands, the two ways of looking at a hand in the betting stage of the
\* first round: current_hand and hand_from_player_id for every id, with
\* DefaultBet and BlindNil offered at every turn
NextHands ==
    \/ start_game(CutPerm(0))
    \/ current_hand
    \/ \E player_id \in PlayerIds : call_hand_from_player_id(player_id)
    \/ \E bet \in {DefaultBet, BlindNil} : place_bet(bet)

SpecHands == Init /\ [][NextHands]_vars

(***************************************************************************)
(* Claims                                                                  *)
(***************************************************************************)
\* the sum of the lengths of the four hands
HandCards == Len(player[0].hand) + Len(player[1].hand) + Len(player[2].hand) + Len(player[3].hand)

\* a step in which place_bet accepted a bet
BetAccepted == h_bets' = h_bets + 1

\* a step in which play_card accepted a card: the count of accepted plays
\* goes up, or a new round is dealt and the count starts again
PlayAccepted == state.tag = "Trick" /\ (h_plays' = h_plays + 1 \/ state'.tag = "Betting")

\* C1: a round is exactly 4 accepted bets followed by exactly 4 * TricksPerRound
\* accepted plays (52 in the program): the state is Betting(n) after n < 4
\* accepted bets and no play, Trick(k mod 4) after 4 bets and k < 4 * TricksPerRound
\* accepted plays, the betting stage is left only by the 4th bet and only for
\* Trick(0), and the trick stage is left only by the last play of the round
\* and only for Betting(0) of a new round or GameCompleted.
C1_RoundShape ==
    /\ [](/\ state.tag = "Betting" => (h_bets = state.n /\ h_plays = 0)
          /\ state.tag = "Trick" =>
                (h_bets = 4 /\ h_plays < DeckSize /\ h_plays % 4 = state.n)
          /\ state.tag = "GameCompleted" => (h_bets = 4 /\ h_plays = DeckSize))
    /\ [][(state.tag = "Betting" /\ state' # state) =>
             /\ BetAccepted
             /\ IF h_bets = 3 THEN state' = Trick(0) ELSE state' = Betting(h_bets + 1)]_vars
    /\ [][(state.tag = "Trick" /\ state' # state) =>
             /\ PlayAccepted
             /\ IF h_plays = DeckSize - 1
                THEN state' \in {Betting(0), GameCompleted}
                ELSE state' = Trick((h_plays + 1) % 4)]_vars

\* a new round has been dealt after a complete round
C1_Witness == state = Betting(0) /\ scoring.round = 1 /\ ret = "TrickCompleted"

\* C2: the seats bet in the order 0, 1, 2, 3: at Betting(n) the current player
\* is seat n; an accepted place_bet at Betting(n), n < 3, returns MadeBet, moves
\* to Betting(n + 1) and passes the turn to the next seat (mod 4); the accepted
\* place_bet at Betting(3) returns CompletedBetting, moves to Trick(0) and makes
\* seat 0 the current player.
C2_BettingOrder ==
    /\ [](state.tag = "Betting" => current_player_index = state.n)
    /\ [][(state.tag = "Betting" /\ BetAccepted) =>
             IF state.n < 3
             THEN /\ ret' = "MadeBet"
                  /\ state' = Betting(state.n + 1)
                  /\ current_player_index' = (current_player_index + 1) % 4
             ELSE /\ ret' = "CompletedBetting"
                  /\ state' = Trick(0)
                  /\ current_player_index' = 0]_vars

\* the fourth bet, a BlindNil by seat 3, has completed the betting
C2_Witness ==
    /\ state = Trick(0)
    /\ ret = "CompletedBetting"
    /\ current_player_index = 0
    /\ scoring.bets_placed[3] = BlindNil
    /\ scoring.bets_placed[1] = Nil

\* the seat that played the winning card of a complete trick, by the rules of
\* the game: the highest spade if a spade was played, otherwise the highest
\* card of the suit of the first card
RuleWinningPosition(cards) ==
    LET trumps == {i \in 1 .. Len(cards) : cards[i].suit = Spades}
        follows == {i \in 1 .. Len(cards) : cards[i].suit = cards[1].suit}
        among == IF trumps # {} THEN trumps ELSE follows
    IN  CHOOSE i \in among : \A j \in among : cards[j].rank <= cards[i].rank

C4_TrickWinner ==
    probe.done =>
        LET k == RuleWinningPosition(probe.cards) - 1
            won == probe.cards[((probe.out + 4 - probe.leader) % 4) + 1]
        IN  /\ probe.out = (probe.leader + k) % 4
            /\ won.suit \in {Spades, probe.cards[1].suit}

\* hearts led by seat 2 with the highest heart played third, spades played
\* second and fourth: the higher spade, played fourth by seat 1, wins
C4_Witness ==
    /\ probe.done
    /\ probe.leader = 2
    /\ probe.cards[1].suit = Hearts
    /\ probe.cards[2].suit = Spades
    /\ probe.cards[3].suit = Hearts
    /\ probe.cards[3].rank > probe.cards[1].rank
    /\ probe.cards[4].suit = Spades
    /\ probe.cards[4].rank > probe.cards[2].rank
    /\ probe.out = 1

\* the current player's hand
CurrentHand == player[current_player_index].hand

\* the hand holds a card of the suit
HoldsSuit(hand, suit) == \E i \in 1 .. Len(hand) : hand[i].suit = suit

\* the hand holds a card of another suit
HoldsOtherSuit(hand, suit) == \E i \in 1 .. Len(hand) : hand[i].suit # suit

\* C5: in Trick(n), n >= 1, the leading suit is the suit of the first card of
\* the current trick; if the current player holds a card of that suit,
\* can_play_card accepts every held card of that suit and refuses every held
\* card of another suit with CardIncorrectSuit; if the player holds no card
\* of that suit, it accepts every held card, spades included.
C5_FollowSuit ==
    (state.tag = "Trick" /\ state.n >= 1) =>
        LET led == current_trick[1].suit
        IN  /\ leading_suit = Some(led)
            /\ \A c \in Card :
                  Contains(CurrentHand, c) =>
                    can_play_card(c) = IF HoldsSuit(CurrentHand, led) /\ c.suit # led
                                       THEN "CardIncorrectSuit"
                                       ELSE "None"

\* play_card has refused a card to a player who holds the leading suit and
\* another suit
C5_Witness ==
    /\ state.tag = "Trick"
    /\ state.n >= 1
    /\ ret = "None"
    /\ HoldsSuit(CurrentHand, current_trick[1].suit)
    /\ HoldsOtherSuit(CurrentHand, current_trick[1].suit)

\* a spade has been played since the last deal: the deck holds the cards
\* played in the round
SpadePlayedThisRound == \E i \in 1 .. Len(deck) : deck[i].suit = Spades

\* C6: in Trick(0) can_play_card accepts every held card that is not a spade;
\* it refuses a held spade with CardIncorrectSuit when no spade has been
\* played in this round and the player holds a card that is not a spade, and
\* accepts it when a spade has been played in this round or the player holds
\* only spades.
C6_LeadSpades ==
    (state.tag = "Trick" /\ state.n = 0) =>
        \A c \in Card :
            Contains(CurrentHand, c) =>
                can_play_card(c) = IF /\ c.suit = Spades
                                      /\ ~SpadePlayedThisRound
                                      /\ HoldsOtherSuit(CurrentHand, Spades)
                                   THEN "CardIncorrectSuit"
                                   ELSE "None"

\* a player who holds a spade and another suit leads a trick after a spade
\* has been played
C6_Witness ==
    /\ state.tag = "Trick"
    /\ state.n = 0
    /\ SpadePlayedThisRound
    /\ HoldsSuit(CurrentHand, Spades)
    /\ HoldsOtherSuit(CurrentHand, Spades)

\* C7: a call of play_card or place_bet that returns None, and a call of
\* start_game in a state other than GameNotStarted, leaves every field of the
\* game as it was before the call: state, current player, hands, deck, current
\* trick, leading suit, spades_broken, bets and scores.
C7_IllegalNoChange ==
    [][(ret' = "None" \/ (ret' = "Unit" /\ state # GameNotStarted)) => UNCHANGED game]_vars

\* place_bet has refused a BlindNil of a player who has seen the hand
C7_Witness ==
    /\ ret = "None"
    /\ state.tag = "Betting"
    /\ player[current_player_index].seen_hand

\* C8 as stated: the deck, the four hands and the current trick hold
\* DeckSize cards in all (52 in the program) whenever the game is observed
\* during a round.
C8_CountWithTrick ==
    state.tag \in {"Betting", "Trick"} =>
        Len(deck) + HandCards + Len(current_trick) = DeckSize

\* the last n elements of a sequence
LastCards(cards, n) == SubSeq(cards, Len(cards) - n + 1, Len(cards))

\* C8 amended: the deck and the four hands hold DeckSize cards in all, no
\* card twice, and the cards of the current trick are the last cards of the
\* deck, so that counting the current trick as well gives DeckSize plus the
\* length of the current trick.
C8_CardsConserved ==
    /\ Len(deck) + HandCards = DeckSize
    /\ {deck[i] : i \in 1 .. Len(deck)}
          \cup UNION {{player[p].hand[i] : i \in 1 .. Len(player[p].hand)} : p \in Seats}
          = Card
    /\ Len(current_trick) <= Len(deck)
    /\ current_trick = LastCards(deck, Len(current_trick))

\* a trick is unfinished: three cards are in the current trick and on the deck
C8_Witness ==
    /\ state = Trick(3)
    /\ Len(current_trick) = 3
    /\ Len(deck) >= 3
    /\ ret = "CardPlayed"

\* C9: in the betting stage, for a current player who has called current_hand
\* since the deal, can_place_bet(BlindNil) reports BetImproperSeenHand and
\* place_bet(BlindNil) returns None and leaves the state and the turn as they
\* were, while can_place_bet accepts Nil and every Amount; for a current
\* player who has not called current_hand since the deal, can_place_bet
\* accepts BlindNil.
C9_BlindNilAfterViewing ==
    /\ [](state.tag = "Betting" =>
            IF current_player_index \in h_viewed
            THEN /\ can_place_bet(BlindNil) = "BetImproperSeenHand"
                 /\ can_place_bet(Nil) = "None"
                 /\ \A a \in 0 .. MaxAmount : can_place_bet(Amount(a)) = "None"
            ELSE can_place_bet(BlindNil) = "None")
    /\ [][(state.tag = "Betting" /\ current_player_index \in h_viewed /\ place_bet(BlindNil)) =>
             (ret' = "None" /\ UNCHANGED <<state, current_player_index>>)]_vars

\* C10: every deal after the first round resets the has-viewed flag of every
\* player: in the betting stage of a later round a player who has not called
\* current_hand since the deal has seen_hand unset and, at that player's turn,
\* can_place_bet accepts BlindNil.
C10_FlagResetAtDeal ==
    (state.tag = "Betting" /\ scoring.round >= 1) =>
        \A p \in Seats :
            p \notin h_viewed =>
                /\ ~player[p].seen_hand
                /\ p = current_player_index => can_place_bet(BlindNil) = "None"

\* the bets a caller may offer in the specification at hand
OfferedBets == BetInputs \cup {DefaultBet}

\* C11: when place_bet(b) is accepted for the player at seat i, the
\* bets_placed query reports b at index i from then on, until the next deal
\* clears the bets: after n accepted bets of a round the query's entries
\* 0 .. n - 1 are the bets the scoring engine has recorded for those seats.
C11_BetsPlacedQuery ==
    /\ [][\A bet \in OfferedBets :
            (can_place_bet(bet) = "None" /\ place_bet(bet)) =>
                bets_placed_query'[current_player_index] = bet]_vars
    /\ [](state.tag \in {"Betting", "Trick"} =>
            \A i \in Seats : i < h_bets => bets_placed_query[i] = scoring.bets_placed[i])

\* the team of seats 0 and 2 is team 0, the team of seats 1 and 3 is team 1
TeamSeats(t) == <<t, t + 2>>

\* C12: winner_ids returns Err(GameNotCompleted) in every state but
\* GameCompleted; in GameCompleted it returns the ids of the two players of
\* the team whose cumulative points are the greater.
C12_WinnerIds ==
    IF state = GameCompleted
    THEN \A t \in 0 .. 1 :
            scoring.team[t].cumulative_points > scoring.team[1 - t].cumulative_points
                => winner_ids = Ok(TeamSeats(t))
    ELSE winner_ids = Err("GameNotCompleted")

\* a team's cumulative points have reached max_points
SomeTeamReached(sc) == \E t \in 0 .. 1 : sc.team[t].cumulative_points >= sc.max_points

\* C13: the state becomes GameCompleted only in the play_card that settles a
\* round, the fourth card of the last trick; that play completes the game if
\* and only if, with both teams' totals settled, a team's cumulative points
\* are >= max_points; every other accepted play leaves the teams' totals as
\* they were and keeps the game in the Trick stage, also when a total already
\* meets max_points.
C13_CompletedAtSettlement ==
    /\ [][(state # GameCompleted /\ state' = GameCompleted) =>
             /\ PlayAccepted
             /\ h_plays = DeckSize - 1
             /\ state = Trick(3)
             /\ scoring.trick = LastTrick]_vars
    /\ [][(PlayAccepted /\ h_plays = DeckSize - 1) =>
             (state' = GameCompleted <=> SomeTeamReached(scoring'))]_vars
    /\ [][(PlayAccepted /\ h_plays < DeckSize - 1) =>
             /\ state'.tag = "Trick"
             /\ scoring'.team = scoring.team
             /\ ~scoring'.is_over]_vars

\* the settling play has completed a game in which one team ends with
\* exactly max_points
C13_Witness ==
    /\ state = GameCompleted
    /\ ret = "GameCompleted"
    /\ scoring.max_points = MaxPointsArg
    /\ \E t \in 0 .. 1 : scoring.team[t].cumulative_points = scoring.max_points

\* C14: in GameCompleted can_start_game reports ImproperGameStage,
\* can_place_bet and can_play_card report GameCompleted for every bet and
\* card, and every call leaves the game as it is: start_game returns,
\* place_bet and play_card return None, and the state stays GameCompleted.
C14_CompletedTerminal ==
    /\ [](state = GameCompleted =>
            /\ can_start_game = "ImproperGameStage"
            /\ \A bet \in OfferedBets : can_place_bet(bet) = "GameCompleted"
            /\ \A card \in Card : can_play_card(card) = "GameCompleted")
    /\ [][state = GameCompleted =>
             /\ UNCHANGED game
             /\ ret' \in {"None", "Unit", "Err"}]_vars

\* a call has been refused after the game was completed
C14_Witness ==
    /\ state = GameCompleted
    /\ ret = "None"

\* the players whose trick-win flag is set for the trick
FlaggedFor(sc, trick) == {p \in Seats : sc.players[p][trick]}

\* C16: at every round settlement the tricks of team 0 and of team 1 add up
\* to TricksPerRound (13 in the program) and every trick of the round has the
\* flag of exactly one player; every trick played sets exactly one flag, the
\* winner's flag for that trick; the end of the betting clears every flag.
C16_TricksAddUp ==
    /\ [][scoring'.round # scoring.round =>
             /\ scoring'.team[0].tricks + scoring'.team[1].tricks = TricksPerRound
             /\ \A t \in 0 .. (TricksPerRound - 1) :
                   Cardinality(FlaggedFor(scoring', t)) = 1]_vars
    /\ [][(PlayAccepted /\ state.n = 3) =>
             /\ FlaggedFor(scoring, scoring.trick) = {}
             /\ Cardinality(FlaggedFor(scoring', scoring.trick)) = 1
             /\ \A t \in 0 .. (TricksPerRound - 1) :
                   t # scoring.trick => FlaggedFor(scoring', t) = FlaggedFor(scoring, t)]_vars
    /\ [][ret' = "CompletedBetting" =>
             \A t \in 0 .. (TricksPerRound - 1) : FlaggedFor(scoring', t) = {}]_vars

\* the betting of the second round has ended: the flags of the first round,
\* in which both teams won a trick, have been cleared
C16_Witness ==
    /\ scoring.round = 1
    /\ ret = "CompletedBetting"
    /\ scoring.team[0].tricks > 0
    /\ scoring.team[1].tricks > 0

\* a settlement by calculate_round_totals: the bets' values, the team's
\* tricks and the team's combined bet
FirstValue == IF probe.first_bet.kind = "Amount" THEN probe.first_bet.amount ELSE 0
SecondValue == IF probe.second_bet.kind = "Amount" THEN probe.second_bet.amount ELSE 0
CombinedBet == FirstValue + SecondValue
TeamTricks == probe.first_tricks + probe.second_tricks

\* the bag-rollover penalty of the settlement: 100 when the team's cumulative
\* bags, with the round's bags added, reach 10
RolloverPenalty(round_bags) ==
    IF probe.ts.cumulative_bags + round_bags >= 10 THEN 100 ELSE 0

\* the nil settlement of one partner: +100 / -100 for Nil, +200 / -200 for
\* BlindNil, nothing for a numeric bet
RuleNil(bet, own_tricks) ==
    CASE bet = Nil -> IF own_tricks = 0 THEN 100 ELSE 0 - 100
      [] bet = BlindNil -> IF own_tricks = 0 THEN 200 ELSE 0 - 200
      [] OTHER -> 0

\* both nil settlements of the team
RuleNils == RuleNil(probe.first_bet, probe.first_tricks)
              + RuleNil(probe.second_bet, probe.second_tricks)

\* the bet is a nonzero Amount
NonzeroAmount(bet) == bet.kind = "Amount" /\ bet.amount > 0

\* the bet is Nil or BlindNil
NilBet(bet) == bet \in {Nil, BlindNil}

\* C17: when both partners bet a nonzero Amount and the team's tricks are >=
\* the combined bet, the round's bags are tricks - combined bet and the
\* round's points, before the bag-rollover penalty, are
\* 10 * combined bet + (tricks - combined bet).
C17_ContractMade ==
    (/\ probe.done
     /\ NonzeroAmount(probe.first_bet)
     /\ NonzeroAmount(probe.second_bet)
     /\ TeamTricks >= CombinedBet) =>
        /\ probe.out.tricks = TeamTricks
        /\ probe.out.game_bags = TeamTricks - CombinedBet
        /\ probe.out.game_points + RolloverPenalty(TeamTricks - CombinedBet)
              = 10 * CombinedBet + (TeamTricks - CombinedBet)

\* bets of 3 and 8 with 12 tricks: 1 bag and 111 points
C17_Witness ==
    /\ probe.done
    /\ probe.first_bet = Amount(3)
    /\ probe.second_bet = Amount(8)
    /\ TeamTricks = 12
    /\ probe.ts.cumulative_bags = 0
    /\ probe.out.game_bags = 1
    /\ probe.out.game_points = 111

\* C18: when the team's tricks are fewer than the combined bet (Nil and
\* BlindNil counting 0), the round's bags are 0 and the round's points are
\* -10 * combined bet, with no credit for the tricks won, next to the nil
\* settlement of a partner who bet Nil or BlindNil and the bag-rollover
\* penalty.
C18_ContractFailed ==
    (/\ probe.done
     /\ NonzeroAmount(probe.first_bet) \/ NilBet(probe.first_bet)
     /\ NonzeroAmount(probe.second_bet) \/ NilBet(probe.second_bet)
     /\ TeamTricks < CombinedBet) =>
        /\ probe.out.game_bags = 0
        /\ probe.out.game_points + RolloverPenalty(0) - RuleNils = 0 - (10 * CombinedBet)

\* a Nil partner who took no trick and a partner who bet 5 and took 3
C18_Witness ==
    /\ probe.done
    /\ probe.first_bet = Nil
    /\ probe.first_tricks = 0
    /\ probe.second_bet = Amount(5)
    /\ probe.second_tricks = 3
    /\ probe.ts.cumulative_bags = 0
    /\ probe.out.game_points = 50

\* the round's bags by the rules: the tricks beyond the combined bet
RuleBags == IF TeamTricks >= CombinedBet THEN TeamTricks - CombinedBet ELSE 0

\* the contract part of the round's points by the rules: the loss of a
\* failed contract, the award of a contract made by two numeric bidders, and
\* the award of a numeric bidder whose own tricks cover the bet next to a nil
\* partner
RuleContract ==
    IF TeamTricks < CombinedBet THEN 0 - (10 * CombinedBet)
    ELSE IF \/ FirstValue > 0 /\ SecondValue > 0
            \/ FirstValue > 0 /\ probe.first_tricks >= FirstValue
            \/ SecondValue > 0 /\ probe.second_tricks >= SecondValue
         THEN 10 * CombinedBet + (TeamTricks - CombinedBet)
    ELSE 0

\* C19: each partner who bet Nil adds 100 to the round's points when that
\* partner won no trick and subtracts 100 otherwise; for BlindNil the amounts
\* are 200; the two partners are settled separately and their amounts add.
C19_NilSettlement ==
    (/\ probe.done
     /\ NonzeroAmount(probe.first_bet) \/ NilBet(probe.first_bet)
     /\ NonzeroAmount(probe.second_bet) \/ NilBet(probe.second_bet)
     /\ NilBet(probe.first_bet) \/ NilBet(probe.second_bet)) =>
        probe.out.game_points + RolloverPenalty(RuleBags) - RuleContract
          = RuleNil(probe.first_bet, probe.first_tricks)
              + RuleNil(probe.second_bet, probe.second_tricks)

\* a Nil partner without a trick and a BlindNil partner with two tricks:
\* 100 - 200
C19_Witness ==
    /\ probe.done
    /\ probe.first_bet = Nil
    /\ probe.first_tricks = 0
    /\ probe.second_bet = BlindNil
    /\ probe.second_tricks = 2
    /\ probe.ts.cumulative_bags = 0
    /\ probe.out.game_points = 0 - 100

\* C20: when one partner bet Nil or BlindNil and the other a nonzero Amount
\* that the other partner's own tricks cover, the round's points are the
\* contract award 10 * bet + (team tricks - bet) plus the nil settlement
\* (before the bag-rollover penalty).
C20_NilPartnerAward ==
    /\ (/\ probe.done
        /\ NilBet(probe.first_bet)
        /\ NonzeroAmount(probe.second_bet)
        /\ probe.second_tricks >= SecondValue) =>
            probe.out.game_points + RolloverPenalty(TeamTricks - SecondValue)
              = 10 * SecondValue + (TeamTricks - SecondValue)
                  + RuleNil(probe.first_bet, probe.first_tricks)
    /\ (/\ probe.done
        /\ NilBet(probe.second_bet)
        /\ NonzeroAmount(probe.first_bet)
        /\ probe.first_tricks >= FirstValue) =>
            probe.out.game_points + RolloverPenalty(TeamTricks - FirstValue)
              = 10 * FirstValue + (TeamTricks - FirstValue)
                  + RuleNil(probe.second_bet, probe.second_tricks)

\* Amount(11) met by the bidder's own 11 tricks next to a Nil partner
\* without a trick: 110 + 100
C20_Witness ==
    /\ probe.done
    /\ probe.first_bet = Amount(11)
    /\ probe.first_tricks = 11
    /\ probe.second_bet = Nil
    /\ probe.second_tricks = 0
    /\ probe.ts.cumulative_bags = 0
    /\ probe.out.game_points = 210

DriveTeamBet == 2 * DefaultBet.amount

C21_BagsBelowTen ==
    (probe.fn = "calculate_round_totals" /\ probe.done
        /\ probe.ts.cumulative_bags \in 0 .. 9)
    => probe.out.cumulative_bags \in 0 .. 9

CardsOf(hand) == {hand[i] : i \in 1 .. Len(hand)}

\* a fresh deal: every player holds TricksPerRound cards (13 in the program),
\* the four hands are the whole pack and the deck is empty
FreshDeal(pl, cards) ==
    /\ \A p \in Seats : Len(pl[p].hand) = TricksPerRound
    /\ \A p \in Seats : Cardinality(CardsOf(pl[p].hand)) = TricksPerRound
    /\ \A p, q \in Seats : p # q => CardsOf(pl[p].hand) \cap CardsOf(pl[q].hand) = {}
    /\ UNION {CardsOf(pl[p].hand) : p \in Seats} = Card
    /\ cards = <<>>

\* C23: when the last trick of a round is settled and the game is not over,
\* the state is Betting(0), the current player is seat 0, spades are
\* unbroken, the four bets of bets_placed are cleared, the current trick is
\* empty, no leading suit is set, and a fresh deal has been made: 13 cards in
\* each hand and an empty deck.
C23_NewRound ==
    [][(/\ state = Trick(3)
        /\ scoring.trick = LastTrick
        /\ game' # game
        /\ state' # GameCompleted)
       => /\ state' = Betting(0)
          /\ current_player_index' = 0
          /\ spades_broken' = FALSE
          /\ bets_placed' = [p \in Seats |-> Amount(0)]
          /\ current_trick' = <<>>
          /\ leading_suit' = NoSuit
          /\ FreshDeal(player', deck')
          /\ ret' = "TrickCompleted"]_vars

\* a round has been settled and the next one dealt
C23_Witness ==
    /\ state = Betting(0)
    /\ scoring.round = 1
    /\ ~scoring.is_over
    /\ Len(h_last.cards) = 4
    /\ FreshDeal(player, deck)

\* C24: start_game takes effect only in GameNotStarted, where it deals 13
\* cards to each player, leaves spades unbroken, moves to Betting(0) and
\* seat 0 is the current player; in every other state can_start_game reports
\* ImproperGameStage and start_game changes nothing.
C24_StartGame ==
    /\ [](can_start_game = IF state = GameNotStarted THEN "None"
                           ELSE "ImproperGameStage")
    /\ [][(state = GameNotStarted /\ game' # game)
           => /\ ret' = "Unit"
              /\ state' = Betting(0)
              /\ current_player_index' = 0
              /\ spades_broken' = FALSE
              /\ FreshDeal(player', deck')]_vars
    /\ [][(state # GameNotStarted /\ ret' = "Unit") => UNCHANGED game]_vars

\* the game has been started and nothing else has happened
C24_Witness ==
    /\ state = Betting(0)
    /\ scoring.round = 0
    /\ ret = "Unit"
    /\ current_player_index = 0
    /\ FreshDeal(player, deck)

\* C25: an accepted play_card(c) at Trick(n), n < 3, removes exactly c from
\* the current player's hand, leaves the other three hands unchanged, appends
\* c to the current trick, sets the leading suit to c's suit when n = 0 and
\* leaves it unchanged otherwise, passes the turn to the next seat (mod 4),
\* moves to Trick(n + 1) and returns CardPlayed; the scores do not change.
C25_PlayFrame ==
    [][(state.tag = "Trick" /\ state.n < 3 /\ game' # game)
       => \E c \in CardsOf(player[current_player_index].hand) :
            /\ player'[current_player_index].hand
                    = SelectSeq(player[current_player_index].hand, LAMBDA x : x # c)
            /\ Len(player'[current_player_index].hand)
                    = Len(player[current_player_index].hand) - 1
            /\ \A p \in Seats \ {current_player_index} : player'[p] = player[p]
            /\ current_trick' = Append(current_trick, c)
            /\ leading_suit' = IF state.n = 0 THEN Some(c.suit) ELSE leading_suit
            /\ current_player_index' = (current_player_index + 1) % 4
            /\ state' = Trick(state.n + 1)
            /\ ret' = "CardPlayed"
            /\ scoring' = scoring]_vars

\* the second card of a trick has been played, and it was not the first card
\* of the hand that played it
C25_Witness ==
    /\ state = Trick(2)
    /\ ret = "CardPlayed"
    /\ Len(current_trick) = 2
    /\ \E i \in 1 .. Len(player[h_trick[2]].hand) :
            CardKey(player[h_trick[2]].hand[i]) < CardKey(current_trick[2])


\* the tricks the scoring state `sc` records as won by the player at `seat`
TricksRecorded(sc, seat) ==
    Cardinality({t \in DOMAIN sc.players[seat] : sc.players[seat][t]})

\* C26: no settlement finds a player or a team recorded as winning more
\* tricks than a round has (13 in the program): the assertions of
\* calculate_round_totals never fail, in the first round and in later ones.
C26_AssertionUnreachable ==
    [][(state = Trick(3) /\ scoring.trick = LastTrick /\ game' # game)
       => /\ ret' # "Panic"
          /\ \A p \in Seats : TricksRecorded(scoring', p) <= TricksPerRound
          /\ \A p \in 0 .. 1 :
                TricksRecorded(scoring', p) + TricksRecorded(scoring', p + 2)
                    <= TricksPerRound]_vars

\* the second round of a game has been settled
C26_Witness ==
    /\ scoring.round = 2
    /\ scoring.in_betting_stage
    /\ ret \in {"TrickCompleted", "GameCompleted"}
    /\ TricksRecorded(scoring, 0) + TricksRecorded(scoring, 1)
            + TricksRecorded(scoring, 2) + TricksRecorded(scoring, 3) = TricksPerRound


\* C27: every bet recorded by an accepted place_bet that carries a numeric
\* amount has an amount within 0 .. 13 (the tricks of a round).
C27_AmountWithinRound ==
    \A p \in Seats :
        (p < h_bets /\ scoring.bets_placed[p].kind = "Amount")
            => scoring.bets_placed[p].amount \in 0 .. TricksPerRound


\* C28: can_play_card reports the first failing check of a fixed order:
\* GameNotStarted before the game starts, ImproperGameStage during betting,
\* GameCompleted after the game; in a Trick state a card that is not in the
\* current player's hand is CardNotInHand whatever the leading suit and the
\* spades-broken flag are, and only a card of the hand is CardIncorrectSuit.
C28_FirstFailingCheck ==
    \A card \in Card :
        /\ state = GameNotStarted => can_play_card(card) = "GameNotStarted"
        /\ state.tag = "Betting" => can_play_card(card) = "ImproperGameStage"
        /\ state = GameCompleted => can_play_card(card) = "GameCompleted"
        /\ state.tag = "Trick" =>
              /\ can_play_card(card) \in {"None", "CardNotInHand", "CardIncorrectSuit"}
              /\ card \notin CardsOf(CurrentHand) => can_play_card(card) = "CardNotInHand"
              /\ can_play_card(card) = "CardIncorrectSuit" => card \in CardsOf(CurrentHand)

\* the current player holds the suit led, and a card of another suit that
\* the player does not hold is CardNotInHand
C28_Witness ==
    /\ state.tag = "Trick"
    /\ state.n > 0
    /\ HoldsSuit(CurrentHand, current_trick[1].suit)
    /\ \E card \in Card :
            /\ card \notin CardsOf(CurrentHand)
            /\ card.suit # current_trick[1].suit
            /\ can_play_card(card) = "CardNotInHand"

\* C29: spades are unbroken after every deal; the flag is true as soon as a
\* spade has been accepted, led or not, and stays true through the round; it
\* is false again when the next round starts.  In a Trick state the flag is
\* true exactly when a spade has been played in the current round.
C29_SpadesBroken ==
    /\ [](state.tag = "Betting" => ~spades_broken)
    /\ [](state.tag = "Trick" => (spades_broken <=> SpadePlayedThisRound))
    /\ [][(state.tag = "Trick" /\ state'.tag = "Trick" /\ spades_broken)
            => spades_broken']_vars
    /\ [][(state.tag = "Trick" /\ state'.tag = "Trick" /\ game' # game
                /\ \E c \in CardsOf(CurrentHand) \ CardsOf(player'[current_player_index].hand) :
                        c.suit = Spades)
            => spades_broken']_vars
    /\ [][(state # Betting(0) /\ state' = Betting(0)) => ~spades_broken']_vars

\* in the second round of a game a spade has been played, for the first
\* time in the round, on a trick led in another suit, and spades are broken
C29_Witness ==
    /\ state.tag = "Trick"
    /\ scoring.round = 1
    /\ spades_broken
    /\ Len(current_trick) >= 2
    /\ current_trick[1].suit # Spades
    /\ current_trick[Len(current_trick)].suit = Spades
    /\ \A i \in 1 .. (Len(deck) - 1) : deck[i].suit # Spades

\* C30: in every Betting(n) state exactly n bets have been placed in the
\* round and the current player is seat n; in every Trick(n) state the
\* current trick holds exactly n cards, and the leading suit is unset when
\* n = 0 and is the suit of the trick's first card when n >= 1.
C30_StageCounter ==
    /\ state.tag = "Betting" => (h_bets = state.n /\ current_player_index = state.n)
    /\ state.tag = "Trick" =>
          /\ Len(current_trick) = state.n
          /\ leading_suit = IF state.n = 0 THEN NoSuit
                            ELSE Some(current_trick[1].suit)

\* two cards of different suits lie in the trick
C30_Witness ==
    /\ state = Trick(2)
    /\ Len(current_trick) = 2
    /\ current_trick[2].suit # current_trick[1].suit
    /\ leading_suit = Some(current_trick[1].suit)


\* the contract award of the settlement: 10 * combined bet + overtricks
RuleAward == 10 * CombinedBet + (TeamTricks - CombinedBet)

\* the round's points without the bag-rollover penalty and without the nil
\* settlement of the partners who bet Nil or BlindNil
PointsBesideNils == probe.out.game_points + RolloverPenalty(RuleBags) - RuleNils

\* C31: the +/-100 and +/-200 nil settlement is applied to a partner if and
\* only if that partner's bet is Nil or BlindNil; a partner whose bet is an
\* Amount, Amount(0) included, gets no nil bonus or penalty: beside the
\* settlement of the Nil and BlindNil partners the round's points are the
\* contract award, the contract penalty or nothing.
C31_NilOnlyForNilBets ==
    (probe.fn = "calculate_round_totals" /\ probe.done)
        => PointsBesideNils \in {0, RuleAward, 0 - (10 * CombinedBet)}


\* C32: when one partner bet Nil or BlindNil, the team's tricks are >= the
\* combined bet but the other partner's own tricks are fewer than that
\* partner's bet, the team gets neither the contract award nor the contract
\* penalty: the round's points (before the bag-rollover penalty) are the nil
\* settlement alone, and the round's bags are team tricks - combined bet.
C32_NilMadeUpDifference ==
    /\ (/\ probe.fn = "calculate_round_totals" /\ probe.done
        /\ NilBet(probe.first_bet)
        /\ NonzeroAmount(probe.second_bet)
        /\ TeamTricks >= CombinedBet
        /\ probe.second_tricks < SecondValue) =>
            /\ probe.out.game_bags = TeamTricks - SecondValue
            /\ probe.out.game_points + RolloverPenalty(TeamTricks - SecondValue)
                  = RuleNil(probe.first_bet, probe.first_tricks)
    /\ (/\ probe.fn = "calculate_round_totals" /\ probe.done
        /\ NilBet(probe.second_bet)
        /\ NonzeroAmount(probe.first_bet)
        /\ TeamTricks >= CombinedBet
        /\ probe.first_tricks < FirstValue) =>
            /\ probe.out.game_bags = TeamTricks - FirstValue
            /\ probe.out.game_points + RolloverPenalty(TeamTricks - FirstValue)
                  = RuleNil(probe.second_bet, probe.second_tricks)

\* a Nil bidder winning 13 tricks next to a partner who bet Amount(11) and
\* won none: 2 bags and -100 points
C32_Witness ==
    /\ probe.fn = "calculate_round_totals" /\ probe.done
    /\ probe.first_bet = Nil
    /\ probe.first_tricks = 13
    /\ probe.second_bet = Amount(11)
    /\ probe.second_tricks = 0
    /\ probe.ts.cumulative_bags = 0
    /\ probe.out.game_bags = 2
    /\ probe.out.game_points = 0 - 100


\* hand_from_player_id has returned the cards the current player holds
ShownById ==
    /\ probe.fn = "hand_from_player_id"
    /\ probe.player_id = current_player_index
    /\ probe.out.ok
    /\ probe.out.hand # <<>>
    /\ probe.out.hand = player[current_player_index].hand

\* C33: every call that exposes a player's hand sets that player's
\* has-viewed flag: after current_hand or hand_from_player_id has returned
\* the current player's cards in the betting stage, a BlindNil bet by that
\* player in the same round is rejected.
C33_ExposedHandBlocksBlindNil ==
    (state.tag = "Betting" /\ (current_player_index \in h_viewed \/ ShownById))
        => can_place_bet(BlindNil) = "BetImproperSeenHand"


\* C34: each team's cumulative points are the sum of its settled round
\* points: they are 0 before the first settlement, every settlement adds the
\* round's points exactly once, no other step changes them, and the round's
\* points and bags are reset to zero when betting ends.
C34_PointsAddUp ==
    /\ [](scoring.round = 0 => \A t \in 0 .. 1 : scoring.team[t].cumulative_points = 0)
    /\ [][\A t \in 0 .. 1 :
            scoring'.team[t].cumulative_points
                = IF scoring'.round = scoring.round + 1
                  THEN scoring.team[t].cumulative_points + scoring'.team[t].game_points
                  ELSE scoring.team[t].cumulative_points]_vars
    /\ [][(BetAccepted /\ h_bets = 3)
            => \A t \in 0 .. 1 : /\ scoring'.team[t].game_points = 0
                                 /\ scoring'.team[t].game_bags = 0]_vars

\* the second round has been settled on top of a nonzero total
C34_Witness ==
    /\ scoring.round = 2
    /\ scoring.in_betting_stage
    /\ scoring.team[0].game_points # 0
    /\ scoring.team[0].cumulative_points # scoring.team[0].game_points


\* how many times the card occurs in the sequence of cards
Occurrences(cards, card) == Cardinality({i \in 1 .. Len(cards) : cards[i] = card})

\* C35: after start_game no card is held in two hands and no card is both in
\* a hand and in the deck: the four hands and the deck (the discard pile)
\* together hold each card of the pack (52 in the program) exactly once.
C35_EachCardOnce ==
    state # GameNotStarted =>
        \A card \in Card :
            Occurrences(player[0].hand, card) + Occurrences(player[1].hand, card)
                + Occurrences(player[2].hand, card) + Occurrences(player[3].hand, card)
                + Occurrences(deck, card) = 1

\* in the middle of a trick some cards are in the hands and some in the deck
C35_Witness ==
    /\ state = Trick(1)
    /\ Len(deck) = 5
    /\ HandCards = DeckSize - 5


\* C36: in every Trick state the current player holds at least one card
\* that can_play_card accepts: trick play never gets stuck without a legal
\* move.
C36_LegalMoveExists ==
    state.tag = "Trick" =>
        \E i \in 1 .. Len(CurrentHand) : can_play_card(CurrentHand[i]) = "None"

\* a player who holds nothing but spades leads a trick before spades are
\* broken
C36_Witness ==
    /\ state = Trick(0)
    /\ ~spades_broken
    /\ CurrentHand # <<>>
    /\ \A i \in 1 .. Len(CurrentHand) : CurrentHand[i].suit = Spades


\* the seat that leads the current trick: seat 0 for the first trick of a
\* round, the winner of the previous trick otherwise
TrickLeader ==
    IF scoring.trick = 0 THEN 0
    ELSE h_last.seats[RuleWinningPosition(h_last.cards)]

\* the seats that have played a card on the current trick
PlayedSeats == {(TrickLeader + k) % 4 : k \in 0 .. (state.n - 1)}

\* C37: each seat plays one card per trick: in every Trick(n) state with t
\* tricks completed in the round the current player is seat (leader + n) mod
\* 4, the leader being seat 0 for t = 0 and the previous trick's winner
\* otherwise; the n seats that have played on the trick hold 12 - t cards and
\* the other seats 13 - t.
C37_OneCardPerSeat ==
    state.tag = "Trick" =>
        /\ current_player_index = (TrickLeader + state.n) % 4
        /\ \A p \in Seats :
              Len(player[p].hand) = IF p \in PlayedSeats
                                    THEN TricksPerRound - 1 - scoring.trick
                                    ELSE TricksPerRound - scoring.trick

\* in a later round, a trick led by another seat than seat 0 is under way
C37_Witness ==
    /\ state = Trick(2)
    /\ scoring.round = 1
    /\ scoring.trick = 1
    /\ TrickLeader # 0
    /\ h_trick = <<TrickLeader, (TrickLeader + 1) % 4>>


\* C38: every deal, at start_game and at each new round, finds the whole
\* pack (52 cards) in the deck, so the assertion of deal_four_players never
\* fails; the deck is complete again exactly when the last trick of a round
\* is settled: it holds the cards played so far during the tricks, fewer
\* than the pack, and the last card of the round completes it.
C38_DealFindsFullDeck ==
    /\ [](/\ ret # "Panic"
          /\ state = GameNotStarted => DealAssertHolds(deck)
          /\ state.tag = "Betting" => deck = <<>>
          /\ state.tag = "Trick" => (Len(deck) = h_plays /\ h_plays < DeckSize)
          /\ state = GameCompleted => Len(deck) = DeckSize)
    /\ [][(state = Trick(3) /\ scoring.trick = LastTrick /\ game' # game)
            => /\ Len(deck) = DeckSize - 1
               /\ state' \in {Betting(0), GameCompleted}
               /\ state' = Betting(0) => (deck' = <<>> /\ HandCards' = DeckSize)]_vars

\* the third round of a game has been dealt
C38_Witness ==
    /\ state = Betting(0)
    /\ scoring.round = 2
    /\ deck = <<>>
    /\ HandCards = DeckSize
    /\ ret = "TrickCompleted"


\* C39: the scoring engine's stage agrees with the game state: its
\* in_betting_stage flag is false exactly when the state is a Trick state,
\* and during trick play its trick counter is the number of tricks completed
\* in the round and lies within 0 .. 12, the slots of the trick-win flags.
C39_StageAgrees ==
    /\ ~scoring.in_betting_stage <=> state.tag = "Trick"
    /\ state.tag = "Trick" =>
          /\ scoring.trick = h_plays \div 4
          /\ scoring.trick \in 0 .. LastTrick
          /\ scoring.trick \in DOMAIN scoring.players[current_player_index]

\* the last trick of the second round is under way
C39_Witness ==
    /\ state.tag = "Trick"
    /\ scoring.round = 1
    /\ scoring.trick = LastTrick
    /\ h_plays = 4 * LastTrick + state.n
    /\ ~scoring.in_betting_stage


\* the +/-100 (+/-200 for BlindNil) settlement of a partner whose bet has
\* the value 0
ZeroBetSettlement(bet, own_tricks) ==
    IF bet.kind = "Amount" /\ bet.amount # 0 THEN 0
    ELSE IF own_tricks = 0
         THEN (IF bet = BlindNil THEN 200 ELSE 100)
         ELSE 0 - (IF bet = BlindNil THEN 200 ELSE 100)

\* the contract part of the round's points: what is left of them without
\* the bag-rollover penalty and the settlements of the zero bets
ContractPart ==
    probe.out.game_points + RolloverPenalty(probe.out.game_bags)
        - ZeroBetSettlement(probe.first_bet, probe.first_tricks)
        - ZeroBetSettlement(probe.second_bet, probe.second_tricks)

\* C40: in one settlement, for every pair of bets and trick counts, the
\* round's points hold the contract award 10 * combined bet + overtricks at
\* most once and never together with the -10 * combined bet penalty: the
\* award of two nonzero bets, the two nil-partner awards and the penalty
\* exclude each other.
C40_AwardAtMostOnce ==
    (probe.fn = "calculate_round_totals" /\ probe.done)
        => IF TeamTricks >= CombinedBet
           THEN ContractPart \in {0, RuleAward}
           ELSE ContractPart = 0 - (10 * CombinedBet)

\* both partners bet Nil and both took tricks: no contract award, although
\* each partner's tricks reach the combined bet of 0
C40_Witness ==
    /\ probe.fn = "calculate_round_totals" /\ probe.done
    /\ probe.first_bet = Nil /\ probe.second_bet = Nil
    /\ probe.first_tricks = 2 /\ probe.second_tricks = 3
    /\ probe.ts.cumulative_bags = 0
    /\ probe.out.game_points = 0 - 200

==============================================================================
